---- MODULE Spec2Model ----
(***************************************************************************)
(* Model of llm_opinion_sim.py: vocabulary construction, tokenisation and  *)
(* padding, the training loop of main() and its simulation loop.           *)
(*                                                                         *)
(* A text is the sequence of its maximal runs: a word (a run of            *)
(* non-whitespace characters) or WS (a run of whitespace).  A float32      *)
(* value is held as its ordered bit pattern: the IEEE-754 bits of its      *)
(* magnitude taken as an integer, negated for a negative value, so that    *)
(* integer order is numeric order and adjacent integers are adjacent       *)
(* float32 values.  The network's forward pass is opaque: its output is    *)
(* only known to be a tanh, a float32 vector with components in [-1, 1].   *)
(***************************************************************************)
EXTENDS Integers, Sequences, FiniteSets, TLC

\* ------------------------------------------------------------ constants

PAD_IDX == 0
MAX_LEN == 6
EPOCHS == 400
REPORT_EVERY == 100
\* float32(0.7), float32(0.3) and float32(1.0) as ordered bit patterns
ALPHA == 1060320051
BETA == 1050253722
F32_ONE == 1065353216
PAD == "<pad>"
WS == " "

\* ------------------------------------------------------------ bounds

\* longest training list tried by the vocabulary specification
MaxSamples == 2
\* token sequences tried by the padding specification: ids 0..MaxTok, length <= MaxTokLen
MaxTok == 2
MaxTokLen == 7
\* longest timeline built from EventTexts (the program's own timeline is always tried)
MaxEvents == 2

\* ------------------------------------------------------------ sequences and text

Range(s) == {s[i] : i \in 1..Len(s)}

SeqsUpTo(S, n) == UNION {[1..k -> S] : k \in 0..n}

\* the string literal whose words are ws, separated by single spaces
Text(ws) == [i \in 1..(IF Len(ws) = 0 THEN 0 ELSE 2 * Len(ws) - 1) |->
                IF i % 2 = 1 THEN ws[(i + 1) \div 2] ELSE WS]

\* str.split(): the words of a text, in order, whitespace runs dropped
Split(text) == SelectSeq(text, LAMBDA t : t # WS)

\* Every word the model uses, in the order Python's sorted() gives strings
\* (code point order: digits < "<" < lower-case letters).
Lexicon ==
    << "5g", "<pad>", "action", "ai", "automation", "boom", "boost",
       "breakthrough", "change", "climate", "cuts", "downturn", "economic",
       "economy", "energy", "ethics", "fears", "green", "innovation", "job",
       "jobs", "loss", "program", "recession", "regulation", "renewable",
       "tax", "tech", "urgent", "war" >>

LexRank(w) == CHOOSE i \in 1..Len(Lexicon) : Lexicon[i] = w

\* sorted(words)
Sorted(words) == SelectSeq(Lexicon, LAMBDA w : w \in words)

\* ------------------------------------------------------------ build_vocab, encode, pad_to_max

\* {w for text, *_ in samples for w in text.split()}
SampleWords(samples) == UNION {Range(Split(samples[i])) : i \in 1..Len(samples)}

\* mutant: the membership test is dropped, so a word overwrites an entry
VocabAdd_overwrite(vocab, word) ==
    [w \in DOMAIN vocab \cup {word} |->
        IF w = word THEN Cardinality(DOMAIN vocab) ELSE vocab[w]]

\* mutant: ids are counted from one past the size of the mapping
VocabAdd_off_by_one(vocab, word) ==
    IF word \in DOMAIN vocab THEN vocab
    ELSE vocab @@ (word :> Cardinality(DOMAIN vocab) + 1)

\* the loop body: if word not in vocab: vocab[word] = len(vocab)
VocabAdd(vocab, word) ==
    IF word \in DOMAIN vocab THEN vocab
    ELSE vocab @@ (word :> Cardinality(DOMAIN vocab))

RECURSIVE VocabLoop(_, _)
VocabLoop(vocab, ws) ==
    IF ws = <<>> THEN vocab ELSE VocabLoop(VocabAdd(vocab, Head(ws)), Tail(ws))

build_vocab(samples) == VocabLoop((PAD :> PAD_IDX), Sorted(SampleWords(samples)))

\* A call's outcome: the value returned, or the exception raised.
Return(v) == [exc |-> "none", val |-> v]
Raise(e) == [exc |-> e, val |-> <<>>]

\* [vocab[word] for word in text.split()]: vocab[word] raises KeyError
encode(text, vocab) ==
    LET words == Split(text)
    IN  IF \E i \in 1..Len(words) : words[i] \notin DOMAIN vocab
        THEN Raise("KeyError")
        ELSE Return([i \in 1..Len(words) |-> vocab[words[i]]])

\* mutant: the padding goes in front of the tokens
pad_to_max_left(toks) ==
    IF Len(toks) > MAX_LEN
    THEN Raise("ValueError")
    ELSE Return([i \in 1..(MAX_LEN - Len(toks)) |-> PAD_IDX] \o toks)

\* mutant: a long sequence is cut to MAX_LEN instead of rejected
pad_to_max_truncate(toks) ==
    IF Len(toks) > MAX_LEN
    THEN Return(SubSeq(toks, 1, MAX_LEN))
    ELSE Return(toks \o [i \in 1..(MAX_LEN - Len(toks)) |-> PAD_IDX])

pad_to_max(toks) ==
    IF Len(toks) > MAX_LEN
    THEN Raise("ValueError")
    ELSE Return(toks \o [i \in 1..(MAX_LEN - Len(toks)) |-> PAD_IDX])

\* pad_to_max(encode(text, vocab)): encode's exception propagates
EncodePad(text, vocab) ==
    LET e == encode(text, vocab)
    IN  IF e.exc # "none" THEN e ELSE pad_to_max(e.val)

\* ------------------------------------------------------------ float32 arithmetic

Abs(n) == IF n < 0 THEN -n ELSE n
Sign(n) == IF n < 0 THEN -1 ELSE 1

\* number of bits of n >= 0
BitLen(n) == CHOOSE l \in 0..31 : (l = 31 \/ n < 2^l) /\ (l = 0 \/ n >= 2^(l - 1))

\* biased exponent and significand of a bit pattern (a subnormal has exponent 1
\* and no implicit bit): the value is F32Man * 2^(F32Exp - 150)
F32Exp(b) == IF Abs(b) \div 2^23 = 0 THEN 1 ELSE Abs(b) \div 2^23
F32Man(b) == IF Abs(b) \div 2^23 = 0 THEN Abs(b) % 2^23 ELSE 2^23 + (Abs(b) % 2^23)

\* t / 2^k rounded to nearest, ties to even (exact when k <= 0)
RoundShift(t, k) ==
    IF k <= 0 THEN t * 2^(-k)
    ELSE IF k > 30 THEN 0
    ELSE LET q == t \div 2^k
             r == t % 2^k
             half == 2^(k - 1)
         IN  IF r > half \/ (r = half /\ q % 2 = 1) THEN q + 1 ELSE q

\* The float32 nearest to sign * t * 2^e, where the lowest bit of t is sticky
\* (set when bits below it were dropped).
F32Pack(sign, t, e) ==
    IF t = 0 THEN 0
    ELSE LET E  == e + 150 + BitLen(t) - 24
             Ec == IF E < 1 THEN 1 ELSE E
             k  == (Ec - 150) - e
         IN  sign * ((Ec - 1) * 2^23 + RoundShift(t, k))

\* float32 product: the exact 48-bit product of the significands in two
\* 24-bit limbs, then one rounding
F32Mul(x, y) ==
    LET mx == F32Man(x)
        my == F32Man(y)
        xh == mx \div 2^12
        xl == mx % 2^12
        yh == my \div 2^12
        yl == my % 2^12
        mid == xh * yl + xl * yh
        low == (mid % 2^12) * 2^12 + xl * yl
        hi == xh * yh + mid \div 2^12 + low \div 2^24
        lo == low % 2^24
        t  == 2 * (hi * 4 + lo \div 2^22) + (IF lo % 2^22 # 0 THEN 1 ELSE 0)
    IN  F32Pack(Sign(x) * Sign(y), t, F32Exp(x) + F32Exp(y) - 279)

\* float32 sum: the smaller operand aligned to the larger with guard, round
\* and sticky bits, then one rounding
F32Add(x, y) ==
    LET big == IF Abs(x) >= Abs(y) THEN x ELSE y
        sml == IF Abs(x) >= Abs(y) THEN y ELSE x
        d0 == F32Exp(big) - F32Exp(sml)
        d  == IF d0 > 27 THEN 27 ELSE d0
        B  == F32Man(big) * 8
        S  == (F32Man(sml) * 8) \div 2^d
        st == IF (F32Man(sml) * 8) % 2^d # 0 THEN 1 ELSE 0
        t  == IF Sign(big) = Sign(sml) \/ sml = 0
              THEN 2 * (B + S) + st
              ELSE 2 * (B - S - st) + st
    IN  F32Pack(Sign(big), t, F32Exp(big) - 154)

\* ------------------------------------------------------------ the opinion model and the update

OpinionDim == 1..3

\* What the trained network answers to an event: the opinion it was given,
\* the zero vector, or a saturated tanh (+1 or -1 in every component).
Responses == {"echo", "zero", "pos", "neg"}

\* self.emb(tokens): every id must index a row of the embedding table
EmbedOK(toks, rows) == \A i \in 1..Len(toks) : 0 <= toks[i] /\ toks[i] < rows

\* TinyLLM.forward(tokens, opinion) of a network that responds r to these tokens
Forward(r, toks, opinion) ==
    CASE r = "echo" -> opinion
      [] r = "zero" -> [c \in OpinionDim |-> 0]
      [] r = "pos"  -> [c \in OpinionDim |-> F32_ONE]
      [] r = "neg"  -> [c \in OpinionDim |-> -F32_ONE]

\* mutant: the prediction is added to the whole opinion (opinion + 0.3 * update)
Blend_additive(opinion, update) ==
    [c \in OpinionDim |-> F32Add(F32Mul(F32_ONE, opinion[c]), F32Mul(BETA, update[c]))]

\* mutant: the prediction is subtracted (0.7 * opinion - 0.3 * update)
Blend_sign(opinion, update) ==
    [c \in OpinionDim |-> F32Add(F32Mul(ALPHA, opinion[c]), F32Mul(-BETA, update[c]))]

\* 0.7 * opinion + 0.3 * update on float32 tensors: two rounded products, one rounded sum
Blend(opinion, update) ==
    [c \in OpinionDim |-> F32Add(F32Mul(ALPHA, opinion[c]), F32Mul(BETA, update[c]))]

\* opt.step(): the parameters move to their next version
opt_step(p) == p + 1

\* mutant: the report comes at the end of each hundred (epoch % 100 == 99)
ShouldReport_late(e) == e % REPORT_EVERY = REPORT_EVERY - 1

\* if epoch % 100 == 0
ShouldReport(e) == e % REPORT_EVERY = 0

\* the loss values a training step may compute
LossSet == {0, 1}

\* ------------------------------------------------------------ the program's data

TrainSamples ==
    << Text(<<"climate", "change", "urgent", "action">>),
       Text(<<"renewable", "energy", "breakthrough">>),
       Text(<<"tax", "cuts", "boost", "economy">>),
       Text(<<"automation", "job", "loss", "fears">>),
       Text(<<"ai", "ethics", "regulation">>),
       Text(<<"economic", "downturn", "recession">>),
       Text(<<"tech", "innovation", "boom">>),
       Text(<<"green", "jobs", "program">>) >>

\* 0.2, -0.1, 0.1 / -0.3, 0.4, -0.2 / 0.5, -0.2, 0.6 as float32
InitAgents ==
    [n \in {"Ava", "Ben", "Chen"} |->
        CASE n = "Ava"  -> <<1045220557, -1036831949, 1036831949>>
          [] n = "Ben"  -> <<-1050253722, 1053609165, -1045220557>>
          [] n = "Chen" -> <<1056964608, -1045220557, 1058642330>>]

\* agents.items() visits the names in insertion order
AgentOrder == <<"Ava", "Ben", "Chen">>

Timeline0 ==
    << Text(<<"climate", "change", "urgent", "action">>),
       Text(<<"green", "jobs", "program">>),
       Text(<<"tax", "cuts", "boost", "economy">>),
       Text(<<"automation", "job", "loss", "fears">>),
       Text(<<"tech", "innovation", "boom">>) >>

\* ------------------------------------------------------------ inputs tried

\* other events: a known one, one with a word never seen in training, one of
\* seven known words
EventTexts ==
    { Text(<<"ai", "ethics", "regulation">>),
      Text(<<"ai", "war">>),
      Text(<<"tax", "cuts", "boost", "economy", "green", "jobs", "program">>) }

Timelines == {Timeline0} \cup SeqsUpTo(EventTexts, MaxEvents)

\* training texts for the vocabulary specification: empty, repeated words,
\* leading and trailing whitespace, the literal "<pad>", a word sorting before it
SampleTexts ==
    { <<>>,
      Text(<<"tax", "ai">>),
      <<WS, "ai", WS, "ai", WS>>,
      Text(<<"<pad>", "ai">>),
      Text(<<"tax", "<pad>", "5g">>),
      Text(<<"5g", "war", "5g">>),
      Text(<<"tax", "cuts", "boost", "economy", "green", "jobs", "program">>) }

SampleLists == SeqsUpTo(SampleTexts, MaxSamples)

ProbeTexts == SampleTexts \cup { Text(<<"boom">>), <<WS>> }

TokSeqs == SeqsUpTo(0..MaxTok, MaxTokLen)

\* ------------------------------------------------------------ state

VARIABLES
    pc,             \* the statement main() is about to run, or how it ended
    train_samples,  \* the texts of the training samples
    vocab,          \* word -> id
    inputs,         \* the padded token rows of the training batch
    emb_rows,       \* rows of the embedding table (vocab_size)
    params,         \* version of the model's parameters
    epoch,          \* training epochs completed
    out,            \* the lines printed so far
    agents,         \* name -> opinion vector
    timeline,       \* the event texts
    step,           \* 1-based index of the current event (enumerate(timeline, 1))
    tokens,         \* the current event's padded tokens
    resp,           \* the network's response to the current event
    todo,           \* the agents the inner loop has still to visit
    exc,            \* the exception that ended the run, or "none"
    arg,            \* argument of a function called on its own
    ret             \* its return value

vars == <<pc, train_samples, vocab, inputs, emb_rows, params, epoch, out, agents,
          timeline, step, tokens, resp, todo, exc, arg, ret>>

Start(samples, at, a) ==
    /\ pc = at
    /\ train_samples = samples
    /\ vocab = <<>>
    /\ inputs = <<>>
    /\ emb_rows = 0
    /\ params = 0
    /\ epoch = 0
    /\ out = <<>>
    /\ agents = <<>>
    /\ timeline = <<>>
    /\ step = 0
    /\ tokens = <<>>
    /\ resp = "none"
    /\ todo = <<>>
    /\ exc = "none"
    /\ arg = a
    /\ ret = <<>>

Init == Start(TrainSamples, "build_vocab", <<>>)

\* ------------------------------------------------------------ main()

\* line 54
BuildVocab ==
    /\ pc = "build_vocab"
    /\ vocab' = build_vocab(train_samples)
    /\ pc' = "inputs"
    /\ UNCHANGED <<train_samples, inputs, emb_rows, params, epoch, out, agents,
                   timeline, step, tokens, resp, todo, exc, arg, ret>>

\* lines 55-57: the first text that fails ends the run
MakeInputs ==
    /\ pc = "inputs"
    /\ LET rows == [i \in 1..Len(train_samples) |-> EncodePad(train_samples[i], vocab)]
           bad  == {i \in 1..Len(rows) : rows[i].exc # "none"}
       IN  IF bad = {}
           THEN /\ inputs' = [i \in 1..Len(rows) |-> rows[i].val]
                /\ pc' = "model"
                /\ exc' = exc
           ELSE /\ exc' = rows[CHOOSE i \in bad : \A j \in bad : i <= j].exc
                /\ pc' = "uncaught"
                /\ inputs' = inputs
    /\ UNCHANGED <<train_samples, vocab, emb_rows, params, epoch, out, agents,
                   timeline, step, tokens, resp, todo, arg, ret>>

\* lines 58-66: TinyLLM(len(vocab)) with fresh parameters, the optimizer
MakeModel ==
    /\ pc = "model"
    /\ emb_rows' = Cardinality(DOMAIN vocab)
    /\ params' = 0
    /\ epoch' = 0
    /\ pc' = "train"
    /\ UNCHANGED <<train_samples, vocab, inputs, out, agents, timeline, step,
                   tokens, resp, todo, exc, arg, ret>>

\* lines 67-74: one iteration of the training loop
TrainEpoch ==
    /\ pc = "train"
    /\ epoch < EPOCHS
    /\ IF \A i \in 1..Len(inputs) : EmbedOK(inputs[i], emb_rows)
       THEN /\ \E loss \in LossSet :
                 out' = IF ShouldReport(epoch)
                        THEN Append(out, [kind |-> "epoch", epoch |-> epoch, loss |-> loss])
                        ELSE out
            /\ params' = opt_step(params)
            /\ epoch' = epoch + 1
            /\ UNCHANGED <<pc, exc>>
       ELSE /\ exc' = "IndexError"
            /\ pc' = "uncaught"
            /\ UNCHANGED <<out, params, epoch>>
    /\ UNCHANGED <<train_samples, vocab, inputs, emb_rows, agents, timeline, step,
                   tokens, resp, todo, arg, ret>>

\* lines 75-87: the loop is exhausted; the agents and the timeline are set up
EndTraining ==
    /\ pc = "train"
    /\ epoch = EPOCHS
    /\ agents' = InitAgents
    /\ \E tl \in Timelines : timeline' = tl
    /\ step' = 0
    /\ pc' = "event"
    /\ UNCHANGED <<train_samples, vocab, inputs, emb_rows, params, epoch, out,
                   tokens, resp, todo, exc, arg, ret>>

\* lines 89-91: the next event is tokenised and announced
EventStep ==
    /\ pc = "event"
    /\ step < Len(timeline)
    /\ step' = step + 1
    /\ LET event == timeline[step + 1]
           r == EncodePad(event, vocab)
       IN  IF r.exc = "none"
           THEN /\ tokens' = r.val
                /\ out' = Append(out, [kind |-> "step", step |-> step + 1, event |-> event])
                /\ todo' = AgentOrder
                /\ \E a \in Responses : resp' = a
                /\ pc' = "agents"
                /\ exc' = exc
           ELSE /\ exc' = r.exc
                /\ pc' = "uncaught"
                /\ UNCHANGED <<tokens, out, todo, resp>>
    /\ UNCHANGED <<train_samples, vocab, inputs, emb_rows, params, epoch, agents,
                   timeline, arg, ret>>

\* mutant: the loop body reads the first agent's opinion, not the visited agent's
SimUpdate_stale(ags, name, r, toks) ==
    [ags EXCEPT ![name] = Blend(ags[AgentOrder[1]], Forward(r, toks, ags[AgentOrder[1]]))]

\* the opinions after the loop body has run for name
SimUpdate(ags, name, r, toks) ==
    [ags EXCEPT ![name] = Blend(ags[name], Forward(r, toks, ags[name]))]

\* lines 92-95: the loop body for the next agent
AgentBody ==
    /\ pc = "agents"
    /\ todo # <<>>
    /\ LET name == Head(todo)
       IN  IF EmbedOK(tokens, emb_rows)
           THEN /\ agents' = SimUpdate(agents, name, resp, tokens)
                /\ out' = Append(out, [kind |-> "agent", name |-> name,
                                       opinion |-> agents'[name]])
                /\ todo' = Tail(todo)
                /\ pc' = IF Tail(todo) = <<>> THEN "event" ELSE "agents"
                /\ exc' = exc
           ELSE /\ exc' = "IndexError"
                /\ pc' = "uncaught"
                /\ UNCHANGED <<agents, out, todo>>
    /\ UNCHANGED <<train_samples, vocab, inputs, emb_rows, epoch, timeline,
                   step, tokens, resp, arg, ret>>

\* mutant: the loop body also takes an optimizer step
AgentStep_trains == AgentBody /\ params' = opt_step(params)

\* the loop body under torch.no_grad(), with no optimizer step: the parameters stay
AgentStep == AgentBody /\ UNCHANGED params

\* the timeline is exhausted
EndSimulation ==
    /\ pc = "event"
    /\ step = Len(timeline)
    /\ pc' = "done"
    /\ UNCHANGED <<train_samples, vocab, inputs, emb_rows, params, epoch, out, agents,
                   timeline, step, tokens, resp, todo, exc, arg, ret>>

Next ==
    \/ BuildVocab
    \/ MakeInputs
    \/ MakeModel
    \/ TrainEpoch
    \/ EndTraining
    \/ EventStep
    \/ AgentStep
    \/ EndSimulation

Spec == Init /\ [][Next]_vars

\* main() runs on one thread and every statement returns: an iteration of the
\* training loop that can run does run, and so does the code after the loop
FairSpec == Spec /\ WF_vars(TrainEpoch) /\ WF_vars(EndTraining)

\* ------------------------------------------------------------ functions called on their own

\* pad_to_max(arg)
CallPad ==
    /\ pc = "pad_to_max"
    /\ LET r == pad_to_max(arg)
       IN  /\ ret' = r.val
           /\ exc' = r.exc
           /\ pc' = IF r.exc = "none" THEN "returned" ELSE "uncaught"
    /\ UNCHANGED <<train_samples, vocab, inputs, emb_rows, params, epoch, out, agents,
                   timeline, step, tokens, resp, todo, arg>>

InitPad == \E toks \in TokSeqs : Start(<<>>, "pad_to_max", toks)

SpecPad == InitPad /\ [][CallPad]_vars

\* pad_to_max(encode(text, vocab)) with the vocabulary and the model just built
CallEncodePad ==
    /\ pc = "train"
    /\ \E text \in ProbeTexts :
          LET r == EncodePad(text, vocab)
          IN  /\ arg' = text
              /\ ret' = r.val
              /\ exc' = r.exc
              /\ pc' = IF r.exc = "none" THEN "returned" ELSE "uncaught"
    /\ UNCHANGED <<train_samples, vocab, inputs, emb_rows, params, epoch, out, agents,
                   timeline, step, tokens, resp, todo>>

InitVocab == \E samples \in SampleLists : Start(samples, "build_vocab", <<>>)

NextVocab ==
    \/ BuildVocab
    \/ MakeInputs
    \/ MakeModel
    \/ CallEncodePad

SpecVocab == InitVocab /\ [][NextVocab]_vars

\* ------------------------------------------------------------ what the printed lines say

EpochLines == SelectSeq(out, LAMBDA l : l.kind = "epoch")
StepLines == SelectSeq(out, LAMBDA l : l.kind = "step")
AgentLines(n) == SelectSeq(out, LAMBDA l : l.kind = "agent" /\ l.name = n)

AgentsExist == DOMAIN agents # {}

\* events whose inner loop has started
EventsStarted == IF pc = "uncaught" /\ AgentsExist THEN step - 1 ELSE step

\* agents the inner loop has already visited for the current event
Visited == {n \in DOMAIN agents : pc # "agents" \/ n \notin Range(todo)}

\* the opinion agent n held when the latest event began (n visited for it)
PreEvent(n) ==
    LET ls == AgentLines(n)
    IN  IF Len(ls) >= 2 THEN ls[Len(ls) - 1].opinion ELSE InitAgents[n]

\* the opinion the latest printed line gives agent n
LastPrinted(n) ==
    LET ls == AgentLines(n)
    IN  IF Len(ls) >= 1 THEN ls[Len(ls)].opinion ELSE InitAgents[n]

Min(a, b) == IF a <= b THEN a ELSE b
Max(a, b) == IF a >= b THEN a ELSE b

\* ------------------------------------------------------------ claims

\* C1: for a token sequence of length n <= MAX_LEN, the empty one included,
\* pad_to_max returns a sequence of length exactly MAX_LEN whose first n entries
\* are the input tokens in order and whose other entries are the padding id 0.
C1_PadShape ==
    (pc # "pad_to_max" /\ Len(arg) <= 6) =>
        /\ pc = "returned"
        /\ exc = "none"
        /\ Len(ret) = 6
        /\ \A i \in 1..Len(arg) : ret[i] = arg[i]
        /\ \A i \in (Len(arg) + 1)..6 : ret[i] = 0

\* four tokens, none of them the padding id, padded with two zeros; and the
\* empty sequence padded to six zeros is reached as well
C1_Witness ==
    /\ pc = "returned"
    /\ Len(arg) = 4
    /\ \A i \in 1..4 : arg[i] # 0
    /\ ret = arg \o <<0, 0>>

\* C2: for a token sequence longer than MAX_LEN pad_to_max raises ValueError and
\* returns nothing; when that happens for a timeline event the run ends there,
\* with no agent's opinion updated for that event and nothing run afterwards.
C2_TooLongAborts ==
    [][ /\ ( /\ pc = "event"
             /\ step < Len(timeline)
             /\ encode(timeline[step + 1], vocab).exc = "none"
             /\ Len(encode(timeline[step + 1], vocab).val) > 6 )
           => ( /\ pc' = "uncaught"
                /\ exc' = "ValueError"
                /\ agents' = agents
                /\ tokens' = tokens
                /\ out' = out )
        /\ pc # "uncaught" ]_vars

\* the second event of a timeline was too long: the first event updated every
\* agent once, the second updated none
C2_Witness ==
    /\ pc = "uncaught"
    /\ exc = "ValueError"
    /\ step = 2
    /\ Len(Split(timeline[2])) = 7
    /\ \A n \in DOMAIN agents : Len(AgentLines(n)) = 1
    /\ \A n \in DOMAIN agents : agents[n] = LastPrinted(n)

\* the words of the training texts
TextWords == SampleWords(train_samples)

VocabBuilt == pc # "build_vocab"

\* C3 as claimed: id 0 belongs to exactly one entry, the padding placeholder,
\* every word of the texts has an id >= 1, and no two words share an id.
C3_Original ==
    VocabBuilt =>
        /\ {w \in DOMAIN vocab : vocab[w] = 0} = {"<pad>"}
        /\ \A w \in TextWords : w \in DOMAIN vocab /\ vocab[w] >= 1
        /\ \A v, w \in DOMAIN vocab : v # w => vocab[v] # vocab[w]

\* C3 as amended: id 0 belongs to exactly one entry, the padding placeholder,
\* every word of the texts other than the literal "<pad>" has an id >= 1 (a word
\* "<pad>" in a text is the placeholder's own entry, with id 0), and no two
\* entries share an id.
C3_Amended ==
    VocabBuilt =>
        /\ {w \in DOMAIN vocab : vocab[w] = 0} = {"<pad>"}
        /\ DOMAIN vocab = TextWords \cup {"<pad>"}
        /\ \A w \in TextWords \ {"<pad>"} : vocab[w] >= 1
        /\ \A v, w \in DOMAIN vocab : v # w => vocab[v] # vocab[w]

\* a vocabulary built from texts that hold the word "<pad>" and two other words
C3_Witness ==
    /\ VocabBuilt
    /\ "<pad>" \in TextWords
    /\ Cardinality(TextWords) >= 3
    /\ vocab["<pad>"] = 0

\* words below w in sorted order
Below(words, w) == {v \in words : LexRank(v) < LexRank(w)}

ModelBuilt == pc \in {"train", "returned"} \/ (pc = "uncaught" /\ arg # <<>>)

\* what C10 says of the ids and of the tokens, the order of the ids apart
C10_Indexing ==
    /\ VocabBuilt =>
          /\ {vocab[w] : w \in DOMAIN vocab} = 0..(Cardinality(DOMAIN vocab) - 1)
          /\ vocab["<pad>"] = 0
    /\ ModelBuilt =>
          /\ emb_rows = Cardinality(DOMAIN vocab)
          /\ \A i \in 1..Len(inputs) : \A j \in 1..Len(inputs[i]) :
                0 <= inputs[i][j] /\ inputs[i][j] < emb_rows
    /\ pc = "returned" => \A j \in 1..Len(ret) : 0 <= ret[j] /\ ret[j] < emb_rows

\* C10 as claimed: the ids are exactly 0 .. len(vocab)-1, 0 for the padding
\* placeholder and then 1, 2, ... for the words of the texts in sorted order;
\* every token id from encode then pad_to_max indexes the embedding table of
\* len(vocab) rows.
C10_Original ==
    /\ C10_Indexing
    /\ VocabBuilt => \A w \in TextWords : vocab[w] = Cardinality(Below(TextWords, w)) + 1

\* C10 as amended: the ids are exactly 0 .. len(vocab)-1, 0 for the padding
\* placeholder and then 1, 2, ... for the words of the texts other than the
\* literal "<pad>" in sorted order; every token id from encode then pad_to_max
\* indexes the embedding table of len(vocab) rows.
C10_Amended ==
    /\ C10_Indexing
    /\ VocabBuilt => \A w \in TextWords \ {"<pad>"} :
          vocab[w] = Cardinality(Below(TextWords \ {"<pad>"}, w)) + 1

\* a text with a word before "<pad>" and a word after it was encoded and padded
\* with the vocabulary built from it
C10_Witness ==
    /\ pc = "returned"
    /\ arg = Text(<<"tax", "<pad>", "5g">>)
    /\ ret = <<2, 0, 1, 0, 0, 0>>
    /\ emb_rows = 3

\* C4: a word absent from the vocabulary makes encode fail with a missing-word
\* error that the program reports and survives, not one that ends the run
\* uncaught.
C4_MissingWordReported ==
    exc = "KeyError" =>
        /\ pc # "uncaught"
        /\ \E i \in 1..Len(out) : out[i].kind = "error"

\* C5: the events are processed in timeline order; for each event every agent's
\* opinion is replaced exactly once, computed from that agent's own opinion as
\* it was before the event; after k events every agent has been updated k
\* times (5 times over the 5-event timeline), and the roster is unchanged.
C5_OncePerEventAndAgent ==
    AgentsExist =>
        /\ DOMAIN agents = {"Ava", "Ben", "Chen"}
        /\ Len(StepLines) = EventsStarted
        /\ \A i \in 1..Len(StepLines) :
              StepLines[i].step = i /\ StepLines[i].event = timeline[i]
        /\ \A n \in DOMAIN agents :
              /\ Len(AgentLines(n)) =
                    IF EventsStarted > 0 /\ n \notin Visited
                    THEN EventsStarted - 1 ELSE EventsStarted
              /\ agents[n] = LastPrinted(n)
              /\ (EventsStarted > 0 /\ n \in Visited) =>
                    agents[n] = Blend(PreEvent(n), Forward(resp, tokens, PreEvent(n)))
        /\ pc = "done" =>
              /\ step = Len(timeline)
              /\ \A n \in DOMAIN agents : Len(AgentLines(n)) = Len(timeline)
        /\ (pc = "done" /\ timeline = Timeline0) =>
              \A n \in DOMAIN agents : Len(AgentLines(n)) = 5

\* the program's own timeline has run to its end, the last event answered by
\* echoing each agent's opinion, and the agents now differ from one another
C5_Witness ==
    /\ pc = "done"
    /\ timeline = Timeline0
    /\ resp = "echo"
    /\ \A n \in DOMAIN agents : Len(AgentLines(n)) = 5
    /\ agents["Ava"] # agents["Ben"]
    /\ agents["Ben"] # agents["Chen"]

\* C6: with initial opinions and predictions in [-1, 1], every component of
\* every agent's opinion is in [-1, 1] after any number of events.
C6_OpinionsBounded ==
    \A n \in DOMAIN agents : \A c \in OpinionDim :
        -1065353216 <= agents[n][c] /\ agents[n][c] <= 1065353216

\* after the five events of the program's timeline an opinion has come within
\* 0.1 of the bound (above float32 0.9, or below -0.9)
C6_Witness ==
    /\ pc = "done"
    /\ timeline = Timeline0
    /\ \E n \in DOMAIN agents : \E c \in OpinionDim : Abs(agents[n][c]) > 1063675494

\* the update the inner loop is about to make, or has just made, compared
\* component by component with the old opinion and the prediction, slack float32
\* values being allowed outside the interval between them
Between(old, new, slack) ==
    LET pred == Forward(resp, tokens, old)
    IN  \A c \in OpinionDim :
            /\ Min(old[c], pred[c]) - slack <= new[c]
            /\ new[c] <= Max(old[c], pred[c]) + slack

\* C7 as claimed: every update makes each component of the new opinion lie
\* between the old value and the predicted value, inclusive, and the weight on
\* the old opinion is the larger one.
C7_Original ==
    [][ (pc = "agents" /\ pc' # "uncaught") =>
            /\ Between(agents[Head(todo)], agents'[Head(todo)], 0)
            /\ ALPHA > BETA ]_vars

\* C7 as amended: every update is computed in float32 (each product and the sum
\* rounded to nearest), so each component of the new opinion lies between the
\* old value and the predicted value or is the float32 value next to that
\* interval, and the weight on the old opinion is the larger one.
C7_Amended ==
    [][ (pc = "agents" /\ pc' # "uncaught") =>
            /\ Between(agents[Head(todo)], agents'[Head(todo)], 1)
            /\ ALPHA > BETA ]_vars

\* the network echoed an agent's opinion, and the update moved a component of it
\* to the adjacent float32 value
C7_Witness ==
    /\ pc \in {"agents", "event"}
    /\ resp = "echo"
    /\ \E n \in Visited : \E c \in OpinionDim :
          Abs(agents[n][c] - PreEvent(n)[c]) = 1

\* at every step: one parameter update per epoch completed, at most 400 epochs,
\* the loop left only after the 400th, an iteration always possible before
\* that, and a report exactly for epochs 0, 100, 200 and 300
C8_FixedEpochs ==
    /\ epoch \in 0..400
    /\ params = epoch
    /\ pc \notin {"build_vocab", "inputs", "model", "train"} => epoch = 400
    /\ (pc = "train" /\ epoch < 400) => ENABLED TrainEpoch
    /\ Len(EpochLines) = (epoch + 99) \div 100
    /\ \A i \in 1..Len(EpochLines) : EpochLines[i].epoch = (i - 1) * 100

\* C8: training ends after exactly 400 epochs, with exactly one parameter update
\* per epoch and no early exit whatever the loss, and the loss is reported
\* exactly on epochs 0, 100, 200 and 300: the above holds at every step, and
\* once the training loop is entered the statements after it are reached with
\* 400 epochs done.
C8_TrainingTerminates ==
    /\ []C8_FixedEpochs
    /\ (pc = "train") ~> (pc = "event" /\ epoch = 400 /\ params = 400)

\* training has ended after 400 updates although the loss reported on epoch 0
\* and on epoch 300 was zero
C8_Witness ==
    /\ pc = "event"
    /\ params = 400
    /\ Len(EpochLines) = 4
    /\ EpochLines[1].loss = 0
    /\ EpochLines[4] = [kind |-> "epoch", epoch |-> 300, loss |-> 0]

\* C9: the parameters change only in training steps, all of them before any
\* agent exists or is updated; no step of the simulation changes the
\* parameters (or the vocabulary, the batch or the embedding size), and no
\* training step changes an agent.
C9_Frames ==
    [][ /\ params' # params =>
              /\ pc = "train" /\ pc' = "train"
              /\ ~AgentsExist
              /\ agents' = agents
        /\ pc = "train" /\ pc' = "train" => agents' = agents
        /\ pc \in {"event", "agents"} =>
              /\ params' = params
              /\ vocab' = vocab
              /\ inputs' = inputs
              /\ emb_rows' = emb_rows ]_vars

\* the simulation has run to its end and changed every agent's opinion, and the
\* parameters are those training left after its 400 updates
C9_Witness ==
    /\ pc = "done"
    /\ step >= 1
    /\ params = 400
    /\ \A n \in DOMAIN agents : agents[n] # InitAgents[n]

====
